---- MODULE Spec2Model ----
(***************************************************************************)
(* A model of arboribus' pattern-resolution and path-reconciliation        *)
(* engine (src/arboribus/core.py) and of the commands of src/arboribus/    *)
(* cli.py that drive it: apply, init, add-rule and remove-rule.            *)
(*                                                                         *)
(* A path is a sequence of component strings; its first component is the   *)
(* root it lives under ("S" is source_dir, "T" the target directory).      *)
(* The filesystem is a function from the paths that exist to their nodes.  *)
(***************************************************************************)
EXTENDS Integers, Sequences, FiniteSets, TLC

VARIABLES fs, git_tracked_files, pre, last,
          patterns, exclude_patterns, include_files, resolved,
          git_run, batch, query, config

vars == <<fs, git_tracked_files, pre, last,
          patterns, exclude_patterns, include_files, resolved,
          git_run, batch, query, config>>

(***************************************************************************)
(* Bounds and input universes.                                             *)
(***************************************************************************)
MaxContent == 2

Contents == 1..MaxContent

\* Optional values: None is the empty sequence
NoneValue == <<>>

\* Optional[set] of tracked path strings: None, or the set given
NoTracked == [is_none |-> TRUE, files |-> {}]

Tracked(files) == [is_none |-> FALSE, files |-> files]

source_dir == <<"S">>

target_dir == <<"T">>

\* Root-relative paths the source and target trees are built from.
RelPaths == {<<"a">>, <<"a", "b">>, <<"a", "b", "c">>, <<"a", "d">>}

\* None, the empty set, and the sets of tracked files the trees can hold
\* ("a" is tracked when it is a file, the others when "a" is a directory)
TrackedSets ==
    {NoTracked} \cup
    {Tracked(fl) : fl \in {{}, {"a"}, {"a/b/c"}, {"a/d"}, {"a/b/c", "a/d"}}}

MaxPatterns == 2

\* Root-relative paths the resolver's source trees are built from ("ab" shares
\* a name prefix with "a").
ResolveRelPaths == {<<"a">>, <<"a", "b">>, <<"ab">>}

\* Include patterns: a literal path, a prefix glob, a nested glob, a recursive glob.
PatternStrings == {"a", "a*", "*/b", "**"}

PatternLists == UNION {[1..n -> PatternStrings] : n \in 0..MaxPatterns}

\* Exclude lists: none, a bare name prefix, a directory prefix.
ExcludeLists == {<<>>, <<"a">>, <<"a/">>}

ResolveTrackedSets ==
    {NoTracked} \cup {Tracked(fl) : fl \in {{}, {"a"}, {"a/b"}, {"ab/b"}}}

\* The orders in which a directory listing may come back.
ScanOrders == {"ascending", "descending"}

\* Root-relative paths of the trees in which a sync step fails: a target
\* directory "a" may hold an entry of its own name or a "b".
FailureRelPaths == {<<"a">>, <<"a", "a">>, <<"a", "b">>}

FailureTrackedSets == {NoTracked} \cup {Tracked(fl) : fl \in {{}, {"a"}, {"a/b"}}}

\* The rule lists apply is run with: a prefix glob matching the directories
\* "a" and "ab" but not "c"; a literal directory with a nested glob that
\* matches its file again; a literal path that is a file or a directory.
ApplyPatternLists == {<<"a*">>, <<"a", "*/b">>, <<"c">>}

ApplyTrackedSets == {NoTracked, Tracked({"a/b"})}

\* Root-relative paths of the trees whose files are compared by content.
ContentRelPaths == {<<"a">>, <<"a", "b">>, <<"e">>}

\* Root-relative paths of the trees the collector and the statistics are
\* asked about: files with a lower-case suffix, an upper-case one and none.
QueryRelPaths == {<<"a">>, <<"a", "b">>, <<"a", "b", "c.py">>, <<"a", "d.PY">>, <<"e">>}

\* Longest list of paths the statistics are asked about.
MaxListed == 2

QueryTrackedSets ==
    {NoTracked, Tracked({}), Tracked({"a/b/c.py", "e"}), Tracked({"a/b", "a/d.PY"})}

\* The names, include patterns and exclude patterns the configuration
\* commands are given; "" stands for an option that was left out.
TargetNames == {"t1", "t2"}

RulePatterns == {"p", "q"}

RuleExcludes == {"", "x", "y"}

\* The --target option of init: left out, a directory that exists, one that
\* does not.
TargetOptions == {"", "/T", "/missing"}

\* Longest output of `git ls-files`, in characters.
MaxStdout == 4

\* The characters of that output: a name character, a blank, a line break.
StdoutChars == {"a", " ", "\n"}

\* Exit codes of a git invocation: success, a generic failure, git's fatal error.
ReturnCodes == {0, 1, 128}

(***************************************************************************)
(* Strings and paths.                                                      *)
(***************************************************************************)
startswith(s, prefix) ==
    Len(prefix) <= Len(s) /\ SubSeq(s, 1, Len(prefix)) = prefix

\* substring test, Python's `sub in s`
contains(s, sub) ==
    \E i \in 1..(Len(s) - Len(sub) + 1) : SubSeq(s, i, i + Len(sub) - 1) = sub

RECURSIVE PathStr(_)
\* str(path) of a relative path: the components joined by "/"
PathStr(p) ==
    IF p = <<>> THEN "."
    ELSE IF Len(p) = 1 THEN p[1]
    ELSE PathStr(SubSeq(p, 1, Len(p) - 1)) \o "/" \o p[Len(p)]

Parent(p) == SubSeq(p, 1, Len(p) - 1)

Name(p) == p[Len(p)]

IsUnder(p, d) == Len(p) >= Len(d) /\ SubSeq(p, 1, Len(d)) = d

relative_to(p, d) == SubSeq(p, Len(d) + 1, Len(p))

(***************************************************************************)
(* Filesystem primitives (pathlib / shutil as the code uses them).         *)
(***************************************************************************)
DirNode == [kind |-> "dir", data |-> 0]

FileNode(d) == [kind |-> "file", data |-> d]

\* a file the process may not open for reading: open() raises PermissionError
UnreadableFile == [kind |-> "file", data |-> 0]

exists(f, p) == p \in DOMAIN f

is_file(f, p) == p \in DOMAIN f /\ f[p].kind = "file"

is_dir(f, p) == p \in DOMAIN f /\ f[p].kind = "dir"

\* open(p, "rb") succeeds
readable(f, p) == is_file(f, p) /\ f[p] # UnreadableFile

Children(f, p) == {q \in DOMAIN f : Len(q) = Len(p) + 1 /\ Parent(q) = p}

Descendants(f, p) == {q \in DOMAIN f : IsUnder(q, p)}

Prefixes(p) == {SubSeq(p, 1, n) : n \in 1..Len(p)}

\* Path.mkdir(parents=True, exist_ok=True) / os.makedirs(exist_ok=True):
\* fails, changing nothing, when the path or an ancestor is a file.
mkdir_parents(f, p) ==
    IF \E q \in Prefixes(p) : is_file(f, q)
    THEN [ok |-> FALSE, fs |-> f]
    ELSE [ok |-> TRUE,
          fs |-> [q \in DOMAIN f \cup Prefixes(p) |->
                     IF q \in DOMAIN f THEN f[q] ELSE DirNode]]

\* faulty variant: an existing destination file is left as it is
copy2_keep_existing(f, src, dst) ==
    [ok |-> TRUE,
     fs |-> IF exists(f, dst) \/ ~is_file(f, src) THEN f
            ELSE (dst :> FileNode(f[src].data)) @@ f]

\* faulty variant: the file is moved, the source entry is gone afterwards
copy2_move(f, src, dst) ==
    LET real == IF is_dir(f, dst) THEN Append(dst, Name(src)) ELSE dst
    IN  IF is_dir(f, real) \/ ~readable(f, src) \/ ~is_dir(f, Parent(real))
        THEN [ok |-> FALSE, fs |-> f]
        ELSE [ok |-> TRUE,
              fs |-> [q \in (DOMAIN f \cup {real}) \ {src} |->
                         IF q = real THEN FileNode(f[src].data) ELSE f[q]]]

\* shutil.copy2(src, dst): a directory dst receives the file under src's
\* name; writing onto a directory fails, and so does a source that cannot
\* be opened (it is opened before the destination is).
copy2(f, src, dst) ==
    LET real == IF is_dir(f, dst) THEN Append(dst, Name(src)) ELSE dst
    IN  IF is_dir(f, real) \/ ~readable(f, src) \/ ~is_dir(f, Parent(real))
        THEN [ok |-> FALSE, fs |-> f]
        ELSE [ok |-> TRUE, fs |-> (real :> FileNode(f[src].data)) @@ f]

\* faulty variant: the directory is left in place
rmtree_nothing(f, p) == [ok |-> is_dir(f, p), fs |-> f]

\* shutil.rmtree(p): removes the directory p and everything beneath it;
\* fails on a path that is not a directory.
rmtree(f, p) ==
    IF ~is_dir(f, p)
    THEN [ok |-> FALSE, fs |-> f]
    ELSE [ok |-> TRUE, fs |-> [q \in DOMAIN f \ Descendants(f, p) |-> f[q]]]

\* os.makedirs(p, exist_ok): an existing p is accepted only when it is a
\* directory and exist_ok is set; missing ancestors are created.
makedirs(f, p, exist_ok) ==
    IF exists(f, p)
    THEN [ok |-> is_dir(f, p) /\ exist_ok, fs |-> f]
    ELSE mkdir_parents(f, p)

\* faulty variant: nothing is ignored
ignore_func_nothing(directory, files, tracked) == {}

\* the ignore callback process_directory_sync hands to shutil.copytree: the
\* names of the directory's entries to leave out
ignore_func(directory, files, tracked) ==
    IF tracked.is_none
    THEN {}
    ELSE {n \in files :
            PathStr(relative_to(Append(directory, n), source_dir)) \notin tracked.files}

RECURSIVE copytree(_, _, _, _, _)
RECURSIVE copy_entries(_, _, _, _, _, _)

\* shutil.copytree(src, dst, ignore=ignore_func, dirs_exist_ok): creates dst,
\* then copies every entry that is not ignored, directories recursively; an
\* entry that fails is recorded and the others are still copied.
copytree(f, src, dst, tracked, dirs_exist_ok) ==
    LET names == {Name(q) : q \in Children(f, src)}
        ignored == ignore_func(src, names, tracked)
        made == makedirs(f, dst, dirs_exist_ok)
    IN  IF ~made.ok
        THEN [ok |-> FALSE, fs |-> f]
        ELSE copy_entries(made.fs, src, dst, names \ ignored, tracked, dirs_exist_ok)

copy_entries(f, src, dst, names, tracked, dirs_exist_ok) ==
    IF names = {}
    THEN [ok |-> TRUE, fs |-> f]
    ELSE LET n == CHOOSE x \in names : TRUE
             one == IF is_dir(f, Append(src, n))
                    THEN copytree(f, Append(src, n), Append(dst, n), tracked, dirs_exist_ok)
                    ELSE copy2(f, Append(src, n), Append(dst, n))
             rest == copy_entries(one.fs, src, dst, names \ {n}, tracked, dirs_exist_ok)
         IN  [ok |-> one.ok /\ rest.ok, fs |-> rest.fs]

(***************************************************************************)
(* Tracked-set provider.                                                   *)
(***************************************************************************)
RECURSIVE Strings(_)
\* the strings over StdoutChars of length at most n
Strings(n) ==
    IF n = 0 THEN {""}
    ELSE LET shorter == Strings(n - 1)
         IN  shorter \cup {x \o c : x \in shorter, c \in StdoutChars}

\* subprocess.run(...) returned a CompletedProcess
CompletedProcess(returncode, stdout) ==
    [raises |-> FALSE, returncode |-> returncode, stdout |-> stdout]

\* subprocess.run(...) raised (git missing, cwd missing, ...)
RunRaises == [raises |-> TRUE, returncode |-> 0, stdout |-> ""]

\* the invocation was not made
NotRun == [raises |-> FALSE, returncode |-> 0, stdout |-> ""]

RevParseOutcomes == {RunRaises} \cup {CompletedProcess(rc, "") : rc \in ReturnCodes}

LsFilesOutcomes ==
    {RunRaises} \cup
    {CompletedProcess(rc, out) : rc \in ReturnCodes, out \in Strings(MaxStdout)}

Whitespace == {" ", "\n", "\t"}

RECURSIVE splitlines(_)
\* str.splitlines(): the lines of s, without their line breaks
splitlines(s) ==
    IF s = "" THEN <<>>
    ELSE IF ~contains(s, "\n") THEN <<s>>
    ELSE LET i == CHOOSE k \in 1..Len(s) :
                    /\ SubSeq(s, k, k) = "\n"
                    /\ ~contains(SubSeq(s, 1, k - 1), "\n")
         IN  <<SubSeq(s, 1, i - 1)>> \o splitlines(SubSeq(s, i + 1, Len(s)))

RECURSIVE strip(_)
\* str.strip(): s without its leading and trailing whitespace
strip(s) ==
    IF s = "" THEN ""
    ELSE IF SubSeq(s, 1, 1) \in Whitespace THEN strip(SubSeq(s, 2, Len(s)))
    ELSE IF SubSeq(s, Len(s), Len(s)) \in Whitespace THEN strip(SubSeq(s, 1, Len(s) - 1))
    ELSE s

\* what a call of get_git_tracked_files comes to: the value returned and the
\* git commands run; no exception leaves the function's try block
Returned(value, commands) == [raised |-> FALSE, value |-> value, commands |-> commands]

\* the set built from the lines of the listing
tracked_files(stdout) ==
    LET lines == splitlines(stdout)
    IN  {strip(lines[i]) : i \in {k \in 1..Len(lines) : strip(lines[k]) # ""}}

\* faulty variant: the exit code of `git ls-files` is not looked at
get_git_tracked_files_unchecked(rev_parse, ls_files) ==
    IF rev_parse.raises
    THEN Returned(NoTracked, <<"rev-parse">>)
    ELSE IF rev_parse.returncode # 0
    THEN Returned(NoTracked, <<"rev-parse">>)
    ELSE IF ls_files.raises
    THEN Returned(NoTracked, <<"rev-parse", "ls-files">>)
    ELSE Returned(Tracked(tracked_files(ls_files.stdout)), <<"rev-parse", "ls-files">>)

\* get_git_tracked_files, given what the two git invocations come to
get_git_tracked_files(rev_parse, ls_files) ==
    IF rev_parse.raises
    THEN Returned(NoTracked, <<"rev-parse">>)
    ELSE IF rev_parse.returncode # 0
    THEN Returned(NoTracked, <<"rev-parse">>)
    ELSE IF ls_files.raises
    THEN Returned(NoTracked, <<"rev-parse", "ls-files">>)
    ELSE IF ls_files.returncode # 0
    THEN Returned(NoTracked, <<"rev-parse", "ls-files">>)
    ELSE Returned(Tracked(tracked_files(ls_files.stdout)), <<"rev-parse", "ls-files">>)

(***************************************************************************)
(* Content identity checker.                                               *)
(***************************************************************************)
\* hashlib.md5 digest of the file's bytes, None when the file cannot be read
get_file_checksum(f, p) ==
    IF readable(f, p) THEN <<"md5", f[p].data>> ELSE NoneValue

\* faulty variant: the checksums are never found equal
is_same_file_content_never(f, source_path, target_path) == FALSE

\* faulty variant: two existing paths count as the same content
is_same_file_content_exists(f, source_path, target_path) ==
    exists(f, source_path) /\ exists(f, target_path)

\* faulty variant: two checksums that both failed compare equal
is_same_file_content_none_equal(f, source_path, target_path) ==
    /\ exists(f, source_path) /\ exists(f, target_path)
    /\ get_file_checksum(f, source_path) = get_file_checksum(f, target_path)

is_same_file_content(f, source_path, target_path) ==
    IF ~exists(f, source_path) \/ ~exists(f, target_path)
    THEN FALSE
    ELSE LET source_checksum == get_file_checksum(f, source_path)
             target_checksum == get_file_checksum(f, target_path)
         IN  /\ source_checksum # NoneValue
             /\ target_checksum # NoneValue
             /\ source_checksum = target_checksum

(***************************************************************************)
(* Path reconciler.                                                        *)
(***************************************************************************)
Outcome(ok, msg, f, ops) == [ok |-> ok, msg |-> msg, fs |-> f, ops |-> ops]

\* faulty variant: a failed mkdir does not end the call, the copy is still tried
sync_tracked_file_mkdir_unchecked(f, source_path, target_path, dry, replace_existing) ==
    IF exists(f, target_path) /\ ~replace_existing
    THEN IF is_same_file_content(f, source_path, target_path)
         THEN Outcome(FALSE, "same - skipped", f, <<>>)
         ELSE Outcome(FALSE, "exists - skipped, use --replace-existing", f, <<>>)
    ELSE IF exists(f, target_path) /\ dry
    THEN Outcome(TRUE, "would replace existing", f, <<>>)
    ELSE IF dry
    THEN Outcome(TRUE, "would copy", f, <<>>)
    ELSE LET m == mkdir_parents(f, Parent(target_path))
             c == copy2(m.fs, source_path, target_path)
         IN  IF ~c.ok
             THEN Outcome(FALSE, "error", c.fs, <<"mkdir", "copy2">>)
             ELSE IF exists(c.fs, target_path) /\ replace_existing
             THEN Outcome(TRUE, "replaced", c.fs, <<"mkdir", "copy2">>)
             ELSE Outcome(TRUE, "copied", c.fs, <<"mkdir", "copy2">>)

\* process_file_sync once the file has passed the tracked-set filter
sync_tracked_file(f, source_path, target_path, dry, replace_existing) ==
    IF exists(f, target_path) /\ ~replace_existing
    THEN IF is_same_file_content(f, source_path, target_path)
         THEN Outcome(FALSE, "same - skipped", f, <<>>)
         ELSE Outcome(FALSE, "exists - skipped, use --replace-existing", f, <<>>)
    ELSE IF exists(f, target_path) /\ dry
    THEN Outcome(TRUE, "would replace existing", f, <<>>)
    ELSE IF dry
    THEN Outcome(TRUE, "would copy", f, <<>>)
    ELSE LET m == mkdir_parents(f, Parent(target_path))
         IN  IF ~m.ok
             THEN Outcome(FALSE, "mkdir error", m.fs, <<"mkdir">>)
             ELSE LET c == copy2(m.fs, source_path, target_path)
                  IN  IF ~c.ok
                      THEN Outcome(FALSE, "error", c.fs, <<"mkdir", "copy2">>)
                      ELSE IF exists(c.fs, target_path) /\ replace_existing
                      THEN Outcome(TRUE, "replaced", c.fs, <<"mkdir", "copy2">>)
                      ELSE Outcome(TRUE, "copied", c.fs, <<"mkdir", "copy2">>)

\* faulty variant: the tracked-set filter is missing
process_file_sync_unfiltered(f, source_path, target_path, tracked, dry, replace_existing) ==
    sync_tracked_file(f, source_path, target_path, dry, replace_existing)

process_file_sync(f, source_path, target_path, tracked, dry, replace_existing) ==
    LET relative_path == relative_to(source_path, source_dir)
    IN  IF ~tracked.is_none /\ PathStr(relative_path) \notin tracked.files
        THEN Outcome(FALSE, "filtered out - not git-tracked", f, <<>>)
        ELSE sync_tracked_file(f, source_path, target_path, dry, replace_existing)

\* a tracked entry equal to the directory's path or beneath it
has_tracked_files(relative_path, tracked) ==
    \E tracked_file \in tracked.files :
        \/ startswith(tracked_file, PathStr(relative_path) \o "/")
        \/ tracked_file = PathStr(relative_path)

\* process_directory_sync when it is not a dry run: remove, then copy the tree
sync_tracked_directory(f, source_path, target_path, tracked, replace_existing) ==
    LET removing == exists(f, target_path) /\ replace_existing
        r == IF removing THEN rmtree(f, target_path) ELSE [ok |-> TRUE, fs |-> f]
        done == IF removing THEN <<"rmtree">> ELSE <<>>
    IN  IF ~r.ok
        THEN Outcome(FALSE, "rmtree error", r.fs, done)
        ELSE LET c == copytree(r.fs, source_path, target_path, tracked, replace_existing)
             IN  IF c.ok
                 THEN Outcome(TRUE, "synced directory", c.fs, Append(done, "copytree"))
                 ELSE Outcome(FALSE, "error", c.fs, Append(done, "copytree"))

\* faulty variant: the dry-run return is missing
process_directory_sync_not_dry(f, source_path, target_path, tracked, dry, replace_existing) ==
    LET relative_path == relative_to(source_path, source_dir)
    IN  IF ~tracked.is_none /\ ~has_tracked_files(relative_path, tracked)
        THEN Outcome(FALSE, "filtered out - no git-tracked files", f, <<>>)
        ELSE sync_tracked_directory(f, source_path, target_path, tracked, replace_existing)

process_directory_sync(f, source_path, target_path, tracked, dry, replace_existing) ==
    LET relative_path == relative_to(source_path, source_dir)
    IN  IF ~tracked.is_none /\ ~has_tracked_files(relative_path, tracked)
        THEN Outcome(FALSE, "filtered out - no git-tracked files", f, <<>>)
        ELSE IF dry
        THEN Outcome(TRUE, "would sync directory", f, <<>>)
        ELSE sync_tracked_directory(f, source_path, target_path, tracked, replace_existing)

process_path(f, source_path, target_path, tracked, dry, replace_existing) ==
    IF is_file(f, source_path)
    THEN process_file_sync(f, source_path, target_path, tracked, dry, replace_existing)
    ELSE IF is_dir(f, source_path)
    THEN process_directory_sync(f, source_path, target_path, tracked, dry, replace_existing)
    ELSE Outcome(FALSE, "not a file or directory", f, <<>>)

(***************************************************************************)
(* Pattern resolver.                                                       *)
(***************************************************************************)
\* the characters of the model's names and patterns, by code point
AsciiOrder == "*./PSTYabcdepsty"

ord(c) == CHOOSE i \in 1..Len(AsciiOrder) : SubSeq(AsciiOrder, i, i) = c

RECURSIVE StrLess(_, _)
\* s < t on Python strings
StrLess(s, t) ==
    IF t = "" THEN FALSE
    ELSE IF s = "" THEN TRUE
    ELSE LET a == ord(SubSeq(s, 1, 1))
             b == ord(SubSeq(t, 1, 1))
         IN  IF a # b THEN a < b
             ELSE StrLess(SubSeq(s, 2, Len(s)), SubSeq(t, 2, Len(t)))

RECURSIVE PathLess(_, _)
\* p < q on pathlib paths: the parts compared in order
PathLess(p, q) ==
    IF q = <<>> THEN FALSE
    ELSE IF p = <<>> THEN TRUE
    ELSE IF Head(p) # Head(q) THEN StrLess(Head(p), Head(q))
    ELSE PathLess(Tail(p), Tail(q))

RECURSIVE sorted_desc(_)
sorted_desc(paths) ==
    IF paths = {} THEN <<>>
    ELSE LET m == CHOOSE x \in paths : \A y \in paths \ {x} : PathLess(y, x)
         IN  <<m>> \o sorted_desc(paths \ {m})

RECURSIVE sorted(_)
\* sorted(set(...)): the paths in ascending order
sorted(paths) ==
    IF paths = {} THEN <<>>
    ELSE LET m == CHOOSE x \in paths : \A y \in paths \ {x} : PathLess(x, y)
         IN  <<m>> \o sorted(paths \ {m})

ToSet(seq) == {seq[i] : i \in 1..Len(seq)}

RECURSIVE parts(_)
\* the components of a pattern string, split at "/"
parts(s) ==
    IF ~contains(s, "/") THEN <<s>>
    ELSE LET i == CHOOSE k \in 1..Len(s) :
                    /\ SubSeq(s, k, k) = "/"
                    /\ ~contains(SubSeq(s, 1, k - 1), "/")
         IN  <<SubSeq(s, 1, i - 1)>> \o parts(SubSeq(s, i + 1, Len(s)))

RECURSIVE fnmatch(_, _)
\* fnmatch of one name against one pattern component ("*" matches any run)
fnmatch(name, pat) ==
    IF pat = "" THEN name = ""
    ELSE IF SubSeq(pat, 1, 1) = "*"
    THEN \/ fnmatch(name, SubSeq(pat, 2, Len(pat)))
         \/ name # "" /\ fnmatch(SubSeq(name, 2, Len(name)), pat)
    ELSE /\ name # ""
         /\ SubSeq(name, 1, 1) = SubSeq(pat, 1, 1)
         /\ fnmatch(SubSeq(name, 2, Len(name)), SubSeq(pat, 2, Len(pat)))

RECURSIVE glob_from(_, _, _, _)
\* the paths under base that the pattern components match; with recursive
\* set, a "**" component stands for base and everything beneath it
glob_from(f, base, comps, recursive) ==
    IF comps = <<>>
    THEN IF exists(f, base) THEN {base} ELSE {}
    ELSE LET first == Head(comps)
             rest == Tail(comps)
             usable(q) == rest = <<>> \/ is_dir(f, q)
         IN  IF recursive /\ first = "**"
             THEN UNION {glob_from(f, d, rest, recursive) :
                            d \in {q \in Descendants(f, base) : usable(q)}}
             ELSE UNION {glob_from(f, c, rest, recursive) :
                            c \in {q \in Children(f, base) :
                                      fnmatch(Name(q), first) /\ usable(q)}}

\* glob.glob(str(source_dir / pattern), recursive=...), in listing order
glob(f, pattern, recursive, scan) ==
    LET found == glob_from(f, source_dir, parts(pattern), recursive)
    IN  IF scan = "ascending" THEN sorted(found) ELSE sorted_desc(found)

\* faulty variant: a tracked entry that merely starts with the directory's name admits it
passes_git_filter_name_prefix(f, path, tracked) ==
    LET path_relative == PathStr(relative_to(path, source_dir))
    IN  IF tracked.is_none THEN TRUE
        ELSE IF is_file(f, path) THEN path_relative \in tracked.files
        ELSE \E tracked_file \in tracked.files :
                startswith(tracked_file, path_relative) \/ tracked_file = path_relative

\* faulty variant: an empty tracked set is taken for "no tracked set"
passes_git_filter_falsy(f, path, tracked) ==
    LET path_relative == PathStr(relative_to(path, source_dir))
    IN  IF tracked.is_none \/ tracked.files = {} THEN TRUE
        ELSE IF is_file(f, path) THEN path_relative \in tracked.files
        ELSE \E tracked_file \in tracked.files :
                \/ startswith(tracked_file, path_relative \o "/")
                \/ tracked_file = path_relative

\* the git filtering of a candidate: a file must be tracked, a directory
\* must have a tracked entry equal to it or beneath it
passes_git_filter(f, path, tracked) ==
    LET path_relative == PathStr(relative_to(path, source_dir))
    IN  IF tracked.is_none THEN TRUE
        ELSE IF is_file(f, path) THEN path_relative \in tracked.files
        ELSE \E tracked_file \in tracked.files :
                \/ startswith(tracked_file, path_relative \o "/")
                \/ tracked_file = path_relative

\* faulty variant: an exclude string must equal the relative path
is_excluded_exact(path_relative, excludes) ==
    \E i \in 1..Len(excludes) : path_relative = excludes[i]

\* the exclude filter: some exclude string is a prefix of the relative path
is_excluded(path_relative, excludes) ==
    \E i \in 1..Len(excludes) : startswith(path_relative, excludes[i])

\* faulty variant: a file is a candidate whether or not files were asked for
pattern_matches_any_kind(f, pattern, excludes, tracked, with_files, scan) ==
    LET direct_path == source_dir \o parts(pattern)
        wanted(p) == is_dir(f, p) \/ is_file(f, p)
        kept(p) ==
            /\ wanted(p)
            /\ passes_git_filter(f, p, tracked)
            /\ ~is_excluded(PathStr(relative_to(p, source_dir)), excludes)
        matched_glob_paths ==
            glob(f, pattern, FALSE, scan) \o
            (IF contains(pattern, "*") THEN glob(f, pattern, TRUE, scan) ELSE <<>>)
    IN  IF exists(f, direct_path) /\ wanted(direct_path)
        THEN IF kept(direct_path) THEN <<direct_path>> ELSE <<>>
        ELSE SelectSeq(matched_glob_paths, kept)

\* what one pattern appends to matched_paths
pattern_matches(f, pattern, excludes, tracked, with_files, scan) ==
    LET direct_path == source_dir \o parts(pattern)
        wanted(p) == is_dir(f, p) \/ (with_files /\ is_file(f, p))
        kept(p) ==
            /\ wanted(p)
            /\ passes_git_filter(f, p, tracked)
            /\ ~is_excluded(PathStr(relative_to(p, source_dir)), excludes)
        matched_glob_paths ==
            glob(f, pattern, FALSE, scan) \o
            (IF contains(pattern, "*") THEN glob(f, pattern, TRUE, scan) ELSE <<>>)
    IN  IF exists(f, direct_path) /\ wanted(direct_path)
        THEN IF kept(direct_path) THEN <<direct_path>> ELSE <<>>
        ELSE SelectSeq(matched_glob_paths, kept)

RECURSIVE matched_paths(_, _, _, _, _, _)
\* matched_paths after the loop over the patterns
matched_paths(f, pats, excludes, tracked, with_files, scan) ==
    IF pats = <<>> THEN <<>>
    ELSE pattern_matches(f, Head(pats), excludes, tracked, with_files, scan) \o
         matched_paths(f, Tail(pats), excludes, tracked, with_files, scan)

\* faulty variant: the list is returned as collected, neither deduplicated nor sorted
resolve_patterns_unsorted(f, pats, excludes, tracked, with_files, scan) ==
    matched_paths(f, pats, excludes, tracked, with_files, scan)

resolve_patterns(f, pats, excludes, tracked, with_files, scan) ==
    sorted(ToSet(matched_paths(f, pats, excludes, tracked, with_files, scan)))

(***************************************************************************)
(* File collector.                                                         *)
(***************************************************************************)
\* directory.rglob("*"): everything beneath the directory, in listing order
rglob(f, directory, scan) ==
    LET found == Descendants(f, directory) \ {directory}
    IN  IF scan = "ascending" THEN sorted(found) ELSE sorted_desc(found)

\* what a walk of a directory comes to: it completes, or it raises
\* PermissionError/OSError after it has yielded n items
WalkCompletes == <<>>

WalkRaises(n) == <<n>>

\* the items the loop of collect_files_recursive gets to see
walked(items, walk) ==
    IF walk = WalkCompletes THEN items ELSE SubSeq(items, 1, walk[1])

\* faulty variant: an error of the walk empties the result
collect_files_recursive_all_or_nothing(f, directory, tracked, scan, walk) ==
    LET collected(item) ==
            /\ is_file(f, item)
            /\ tracked.is_none \/ PathStr(relative_to(item, source_dir)) \in tracked.files
    IN  IF walk = WalkCompletes
        THEN SelectSeq(rglob(f, directory, scan), collected)
        ELSE <<>>

\* collect_files_recursive: the files beneath the directory, at any depth,
\* that the tracked set (when there is one) contains; an error of the walk
\* ends the loop and what was collected until then is returned
collect_files_recursive(f, directory, tracked, scan, walk) ==
    LET collected(item) ==
            /\ is_file(f, item)
            /\ tracked.is_none \/ PathStr(relative_to(item, source_dir)) \in tracked.files
    IN  SelectSeq(walked(rglob(f, directory, scan), walk), collected)

(***************************************************************************)
(* Statistics aggregator.                                                  *)
(***************************************************************************)
\* str.rfind: the position of the last occurrence of the character, 0 for none
rfind(s, c) ==
    IF ~contains(s, c) THEN 0
    ELSE CHOOSE i \in 1..Len(s) :
            /\ SubSeq(s, i, i) = c
            /\ ~contains(SubSeq(s, i + 1, Len(s)), c)

\* PurePath.suffix: the name from its last dot on, empty when that dot is
\* the first or the last character of the name
suffix(path) ==
    LET name == Name(path)
        i == rfind(name, ".")
    IN  IF 1 < i /\ i < Len(name) THEN SubSeq(name, i, Len(name)) ELSE ""

UpperCase == "PSTY"

LowerCase == "psty"

RECURSIVE lower(_)
\* str.lower
lower(s) ==
    IF s = "" THEN ""
    ELSE LET c == SubSeq(s, 1, 1)
             l == IF contains(UpperCase, c)
                  THEN LET i == CHOOSE k \in 1..Len(UpperCase) : SubSeq(UpperCase, k, k) = c
                       IN  SubSeq(LowerCase, i, i)
                  ELSE c
         IN  l \o lower(SubSeq(s, 2, Len(s)))

\* the key a file is counted under
extension(path) ==
    IF suffix(path) # "" THEN lower(suffix(path)) ELSE "(no extension)"

\* stats.get(key, 0)
get(stats, key) == IF key \in DOMAIN stats THEN stats[key] ELSE 0

\* total_files += 1; stats[ext] = stats.get(ext, 0) + 1
count_file(acc, path) ==
    [acc EXCEPT !.total_files = @ + 1,
                !.stats = (extension(path) :> (get(acc.stats, extension(path)) + 1)) @@ @]

RECURSIVE count_files(_, _)
count_files(acc, files) ==
    IF files = <<>> THEN acc
    ELSE count_files(count_file(acc, Head(files)), Tail(files))

RECURSIVE count_paths(_, _, _, _, _)
\* the loop of get_file_statistics over the listed paths
count_paths(f, paths, tracked, scan, acc) ==
    IF paths = <<>> THEN acc
    ELSE LET path == Head(paths)
             next == IF is_file(f, path)
                     THEN IF ~tracked.is_none
                             /\ PathStr(relative_to(path, source_dir)) \notin tracked.files
                          THEN acc
                          ELSE count_file(acc, path)
                     ELSE IF is_dir(f, path)
                     THEN count_files([acc EXCEPT !.total_dirs = @ + 1],
                                      collect_files_recursive(f, path, tracked, scan,
                                                              WalkCompletes))
                     ELSE acc
         IN  count_paths(f, Tail(paths), tracked, scan, next)

get_file_statistics(f, paths, tracked, scan) ==
    LET acc == count_paths(f, paths, tracked, scan,
                           [stats |-> <<>>, total_files |-> 0, total_dirs |-> 0])
    IN  ("[TOTAL DIRS]" :> acc.total_dirs) @@ ("[TOTAL FILES]" :> acc.total_files)
            @@ acc.stats

(***************************************************************************)
(* The command line's reconciler and the sync loop of apply (cli.py).      *)
(***************************************************************************)
\* cli.py's get_file_checksum: the SHA256 digest of the file's bytes, the
\* empty (falsy) value when the file cannot be read
cli_get_file_checksum(f, p) ==
    IF readable(f, p) THEN <<"sha256", f[p].data>> ELSE NoneValue

\* what a call of cli.py's process_path comes to: an exception leaving it, or
\* the bool it returns
CliRaised(f) == [raised |-> TRUE, ok |-> FALSE, fs |-> f]

CliReturned(ok, f) == [raised |-> FALSE, ok |-> ok, fs |-> f]

\* cli.py's process_path from "Process the path" on
cli_copy_path(f, source_path, target_path, tracked, dry, replace_existing) ==
    IF is_file(f, source_path)
    THEN IF dry
         THEN CliReturned(TRUE, f)
         ELSE LET m == mkdir_parents(f, Parent(target_path))
                  c == copy2(m.fs, source_path, target_path)
              IN  IF ~m.ok THEN CliRaised(m.fs)
                  ELSE IF ~c.ok THEN CliRaised(c.fs)
                  ELSE CliReturned(TRUE, c.fs)
    ELSE IF is_dir(f, source_path)
    THEN IF dry
         THEN CliReturned(TRUE, f)
         ELSE LET removing == exists(f, target_path) /\ replace_existing
                  r == IF removing THEN rmtree(f, target_path) ELSE [ok |-> TRUE, fs |-> f]
                  c == copytree(r.fs, source_path, target_path, tracked, replace_existing)
              IN  IF ~r.ok THEN CliRaised(r.fs)
                  ELSE CliReturned(c.ok, c.fs)
    ELSE CliReturned(TRUE, f)

\* cli.py's process_path(source_path, target_path, source_dir, ...)
cli_process_path(f, source_path, target_path, tracked, dry, replace_existing) ==
    IF ~IsUnder(source_path, source_dir)
    THEN CliRaised(f)
    ELSE LET relative_path == relative_to(source_path, source_dir)
             source_checksum == cli_get_file_checksum(f, source_path)
             target_checksum == cli_get_file_checksum(f, target_path)
         IN  IF /\ ~tracked.is_none
                /\ is_file(f, source_path)
                /\ PathStr(relative_path) \notin tracked.files
             THEN CliReturned(FALSE, f)
             ELSE IF /\ ~tracked.is_none
                     /\ is_dir(f, source_path)
                     /\ ~has_tracked_files(relative_path, tracked)
             THEN CliReturned(FALSE, f)
             ELSE IF /\ exists(f, target_path) /\ is_file(f, source_path)
                     /\ is_file(f, target_path)
                     /\ source_checksum # NoneValue
                     /\ target_checksum # NoneValue
                     /\ source_checksum = target_checksum
             THEN CliReturned(FALSE, f)
             ELSE IF exists(f, target_path) /\ is_file(f, source_path) /\ ~replace_existing
             THEN CliReturned(FALSE, f)
             ELSE cli_copy_path(f, source_path, target_path, tracked, dry, replace_existing)

RECURSIVE resolve_each(_, _, _, _, _, _)
\* apply's loop over the patterns: resolve_patterns on each pattern alone,
\* the results appended
resolve_each(f, pats, excludes, tracked, with_files, scan) ==
    IF pats = <<>> THEN <<>>
    ELSE resolve_patterns(f, <<Head(pats)>>, excludes, tracked, with_files, scan) \o
         resolve_each(f, Tail(pats), excludes, tracked, with_files, scan)

\* all_matched_paths = sorted(set(all_matched_paths))
all_matched_paths(f, pats, excludes, tracked, with_files, scan) ==
    sorted(ToSet(resolve_each(f, pats, excludes, tracked, with_files, scan)))

RECURSIVE all_files_to_process_files_only(_, _, _, _)
\* faulty variant: a matched directory contributes nothing to the list
all_files_to_process_files_only(f, paths, tracked, scan) ==
    IF paths = <<>> THEN <<>>
    ELSE LET path == Head(paths)
             files == IF is_file(f, path) THEN <<path>> ELSE <<>>
         IN  files \o all_files_to_process_files_only(f, Tail(paths), tracked, scan)

RECURSIVE all_files_to_process(_, _, _, _)
\* the flat list: a matched file itself, a matched directory's collected files
all_files_to_process(f, paths, tracked, scan) ==
    IF paths = <<>> THEN <<>>
    ELSE LET path == Head(paths)
             files == IF is_file(f, path) THEN <<path>>
                      ELSE IF is_dir(f, path)
                      THEN collect_files_recursive(f, path, tracked, scan, WalkCompletes)
                      ELSE <<>>
         IN  files \o all_files_to_process(f, Tail(paths), tracked, scan)

\* faulty variant: an exception is reported but not counted
count_outcome_error_uncounted(b, source_file, r) ==
    [b EXCEPT !.attempted = Append(@, source_file),
              !.outcomes = Append(@, IF r.raised THEN "error"
                                     ELSE IF r.ok THEN "processed" ELSE "skipped"),
              !.processed_count = IF ~r.raised /\ r.ok THEN @ + 1 ELSE @,
              !.skipped_count = IF ~r.raised /\ ~r.ok THEN @ + 1 ELSE @]

\* the bookkeeping of one loop iteration: was_processed counts as processed
\* or skipped, an exception as an error
count_outcome(b, source_file, r) ==
    [b EXCEPT !.attempted = Append(@, source_file),
              !.outcomes = Append(@, IF r.raised THEN "error"
                                     ELSE IF r.ok THEN "processed" ELSE "skipped"),
              !.processed_count = IF ~r.raised /\ r.ok THEN @ + 1 ELSE @,
              !.skipped_count = IF ~r.raised /\ ~r.ok THEN @ + 1 ELSE @,
              !.error_count = IF r.raised THEN @ + 1 ELSE @]

(***************************************************************************)
(* Configuration commands (cli.py): init, add-rule, remove-rule.           *)
(***************************************************************************)
\* load_config: the targets table of arboribus.toml, empty when there is no file
load_config(c) == IF c.exists THEN c.targets ELSE <<>>

\* save_config: the file is written with the table
save_config(targets) == [exists |-> TRUE, targets |-> targets]

\* what a command comes to: typer.Exit(1), or its normal end
Exited(c) == [exit |-> 1, config |-> c]

Done(c) == [exit |-> 0, config |-> c]

\* list.remove(x): the list without the first occurrence of x
remove(list, x) ==
    LET i == CHOOSE k \in 1..Len(list) :
                 list[k] = x /\ \A j \in 1..(k - 1) : list[j] # x
    IN  SubSeq(list, 1, i - 1) \o SubSeq(list, i + 1, Len(list))

\* init --target target --name name
init(c, target, name) ==
    LET targets == load_config(c)
    IN  IF target # ""
        THEN IF target = "/missing"
             THEN Exited(c)
             ELSE Done(save_config(
                     (name :> [path |-> target, patterns |-> <<>>,
                               exclude_patterns |-> <<>>]) @@ targets))
        ELSE Done(save_config(targets))

\* add-rule --pattern pattern --target target_name [--exclude exclude_pattern]
add_rule(c, pattern, target_name, exclude_pattern) ==
    LET targets == load_config(c)
    IN  IF target_name \notin DOMAIN targets
        THEN Exited(c)
        ELSE LET target_config == targets[target_name]
                 with_pattern ==
                     IF pattern \notin ToSet(target_config.patterns)
                     THEN [target_config EXCEPT !.patterns = Append(@, pattern)]
                     ELSE target_config
                 with_exclude ==
                     IF exclude_pattern # ""
                        /\ exclude_pattern \notin ToSet(with_pattern.exclude_patterns)
                     THEN [with_pattern EXCEPT
                              !.exclude_patterns = Append(@, exclude_pattern)]
                     ELSE with_pattern
             IN  Done(save_config([targets EXCEPT ![target_name] = with_exclude]))

\* remove-rule --pattern pattern --target target_name
remove_rule(c, pattern, target_name) ==
    LET targets == load_config(c)
    IN  IF target_name \notin DOMAIN targets
        THEN Exited(c)
        ELSE IF pattern \in ToSet(targets[target_name].patterns)
        THEN Done(save_config(
                [targets EXCEPT ![target_name].patterns = remove(@, pattern)]))
        ELSE Done(c)

(***************************************************************************)
(* State machine.                                                          *)
(***************************************************************************)
Nodes == {DirNode} \cup {FileNode(d) : d \in Contents}

WellFormed(t) ==
    \A p \in DOMAIN t : Len(p) > 1 => Parent(p) \in DOMAIN t /\ t[Parent(p)].kind = "dir"

\* every tree with paths in RelPaths, keyed by root-relative path
Trees == UNION {{t \in [D -> Nodes] : WellFormed(t)} : D \in SUBSET RelPaths}

\* the source trees: every file holds the first content value, so that a
\* target file holding it is identical and one holding another is different
SourceTrees == {t \in Trees : \A p \in DOMAIN t : t[p].kind = "file" => t[p].data = 1}

\* the tree t placed under root
Mount(root, t) ==
    [p \in {root} \cup {root \o r : r \in DOMAIN t} |->
        IF p = root THEN DirNode ELSE t[relative_to(p, root)]]

NoCall == [op |-> "none", rel |-> <<>>, dry |-> FALSE, replace_existing |-> FALSE,
           ok |-> FALSE, msg |-> "", ops |-> <<>>]

NoResolve == [called |-> FALSE, scan |-> "ascending", result |-> <<>>]

\* get_git_tracked_files has not been called
NoGitRun == [called |-> FALSE, raised |-> FALSE, commands |-> <<>>,
             rev_parse |-> NotRun, ls_files |-> NotRun]

\* no read-only helper has been called
NoQuery == [fn |-> "none", args |-> <<>>, value |-> <<>>]

\* no configuration file has been written
NoConfig == [exists |-> FALSE, targets |-> <<>>]

\* apply has not reached its sync loop
NoBatch == [phase |-> "idle", files |-> <<>>, attempted |-> <<>>, outcomes |-> <<>>,
            processed_count |-> 0, skipped_count |-> 0, error_count |-> 0,
            dry |-> FALSE, reverse |-> FALSE, replace_existing |-> FALSE]

Init ==
    /\ \E s \in SourceTrees, t \in Trees : fs = Mount(source_dir, s) @@ Mount(target_dir, t)
    /\ git_tracked_files \in TrackedSets
    /\ pre = fs
    /\ last = NoCall
    /\ patterns = <<>>
    /\ exclude_patterns = <<>>
    /\ include_files = FALSE
    /\ resolved = NoResolve
    /\ git_run = NoGitRun
    /\ batch = NoBatch
    /\ query = NoQuery
    /\ config = NoConfig

\* one call of process_path(source_dir/rel, target_dir/rel, ...), as apply makes it
SyncPath(rel, dry, replace_existing) ==
    LET r == process_path(fs, source_dir \o rel, target_dir \o rel,
                          git_tracked_files, dry, replace_existing)
    IN  /\ fs' = r.fs
        /\ pre' = fs
        /\ last' = [op |-> "process_path", rel |-> rel, dry |-> dry,
                    replace_existing |-> replace_existing,
                    ok |-> r.ok, msg |-> r.msg, ops |-> r.ops]
        /\ UNCHANGED <<git_tracked_files, patterns, exclude_patterns, include_files,
                       resolved, git_run, batch, query, config>>

Next ==
    \E rel \in RelPaths, dry \in BOOLEAN, replace_existing \in BOOLEAN :
        SyncPath(rel, dry, replace_existing)

Spec == Init /\ [][Next]_vars

\* the source trees the resolver is run on: "a" and "a/b" are files or
\* directories, "ab" is a directory (file contents play no part)
ResolveTrees ==
    UNION {{t \in [D -> {DirNode, FileNode(1)}] :
              WellFormed(t) /\ (<<"ab">> \in D => t[<<"ab">>] = DirNode)} :
              D \in SUBSET ResolveRelPaths}

InitResolve ==
    /\ \E s \in ResolveTrees : fs = Mount(source_dir, s) @@ Mount(target_dir, <<>>)
    /\ git_tracked_files \in ResolveTrackedSets
    /\ pre = fs
    /\ last = NoCall
    /\ patterns \in PatternLists
    /\ exclude_patterns \in ExcludeLists
    /\ include_files \in BOOLEAN
    /\ resolved = NoResolve
    /\ git_run = NoGitRun
    /\ batch = NoBatch
    /\ query = NoQuery
    /\ config = NoConfig

\* one call of resolve_patterns on the rules of the run, the directory
\* listings coming back in the order scan
Resolve(scan) ==
    /\ resolved' = [called |-> TRUE, scan |-> scan,
                    result |-> resolve_patterns(fs, patterns, exclude_patterns,
                                                git_tracked_files, include_files, scan)]
    /\ UNCHANGED <<fs, git_tracked_files, pre, last, patterns, exclude_patterns,
                   include_files, git_run, batch, query, config>>

NextResolve == \E scan \in ScanOrders : Resolve(scan)

SpecResolve == InitResolve /\ [][NextResolve]_vars

\* the trees in which mkdir, copy2, rmtree and copytree each meet an entry of
\* the wrong kind
FailureSourceTrees ==
    {t \in UNION {[D -> {DirNode, FileNode(1), UnreadableFile}] :
                     D \in SUBSET {<<"a">>, <<"a", "b">>}} :
        WellFormed(t)}

FailureTargetTrees ==
    {t \in UNION {[D -> Nodes] : D \in SUBSET FailureRelPaths} : WellFormed(t)}

InitFailures ==
    /\ \E s \in FailureSourceTrees, t \in FailureTargetTrees :
          fs = Mount(source_dir, s) @@ Mount(target_dir, t)
    /\ git_tracked_files \in FailureTrackedSets
    /\ pre = fs
    /\ last = NoCall
    /\ patterns = <<>>
    /\ exclude_patterns = <<>>
    /\ include_files = FALSE
    /\ resolved = NoResolve
    /\ git_run = NoGitRun
    /\ batch = NoBatch
    /\ query = NoQuery
    /\ config = NoConfig

NextFailures ==
    \E rel \in FailureRelPaths, dry \in BOOLEAN, replace_existing \in BOOLEAN :
        SyncPath(rel, dry, replace_existing)

SpecFailures == InitFailures /\ [][NextFailures]_vars

\* the trees apply is run on: the source directories "a" and "ab" with or
\* without their file "b", "c" a file or a directory; a target that is
\* empty or holds earlier copies, or a file where the directory "a" belongs
ApplySourceTrees ==
    {t \in UNION {[D -> {DirNode, FileNode(1)}] :
                    D \in SUBSET {<<"a">>, <<"a", "b">>, <<"ab">>, <<"ab", "b">>,
                                  <<"c">>, <<"c", "b">>}} :
        /\ WellFormed(t)
        /\ \A p \in DOMAIN t : Len(p) = 2 => t[p].kind = "file"
        /\ \A p \in DOMAIN t :
              (Len(p) = 1 /\ t[p].kind = "dir") => <<p[1], "b">> \in DOMAIN t
        /\ \A p \in DOMAIN t : t[p].kind = "file" /\ Len(p) = 1 => p = <<"c">>}

ApplyTargetTrees ==
    {t \in UNION {[D -> Nodes] :
                    D \in SUBSET {<<"a">>, <<"a", "b">>, <<"ab">>, <<"ab", "b">>}} :
        /\ WellFormed(t)
        /\ \A p \in DOMAIN t : Len(p) = 2 => t[p].kind = "file"
        /\ <<"a">> \in DOMAIN t /\ t[<<"a">>].kind = "dir" => <<"a", "b">> \in DOMAIN t
        /\ <<"ab">> \in DOMAIN t => <<"ab", "b">> \in DOMAIN t /\ t[<<"ab", "b">>].data = 1}

InitApply ==
    /\ \E s \in ApplySourceTrees, t \in ApplyTargetTrees :
          fs = Mount(source_dir, s) @@ Mount(target_dir, t)
    /\ git_tracked_files \in ApplyTrackedSets
    /\ pre = fs
    /\ last = NoCall
    /\ patterns \in ApplyPatternLists
    /\ exclude_patterns = <<>>
    /\ include_files \in BOOLEAN
    /\ resolved = NoResolve
    /\ git_run = NoGitRun
    /\ batch = NoBatch
    /\ query = NoQuery
    /\ config = NoConfig

\* apply up to its sync loop for the one configured target: the patterns are
\* resolved, the flat file list is collected and the counters are zeroed
ApplyStart(dry, reverse, replace_existing, scan) ==
    LET paths == all_matched_paths(fs, patterns, exclude_patterns, git_tracked_files,
                                   include_files, scan)
        options == [NoBatch EXCEPT !.dry = dry, !.reverse = reverse,
                                   !.replace_existing = replace_existing]
    IN  /\ batch.phase = "idle"
        /\ batch' = IF patterns = <<>> \/ paths = <<>>
                    THEN [options EXCEPT !.phase = "nothing matched"]
                    ELSE [options EXCEPT
                            !.phase = "sync",
                            !.files = all_files_to_process(fs, paths, git_tracked_files, scan)]
        /\ pre' = fs
        /\ UNCHANGED <<fs, git_tracked_files, last, patterns, exclude_patterns,
                       include_files, resolved, git_run, query, config>>

\* one iteration of the sync loop: the next file of the list goes through
\* process_path, the arguments swapped in reverse mode; an exception is caught
ApplySyncFile ==
    /\ batch.phase = "sync"
    /\ Len(batch.attempted) < Len(batch.files)
    /\ LET source_file == batch.files[Len(batch.attempted) + 1]
           relative_path == relative_to(source_file, source_dir)
           target_path == target_dir \o relative_path
           r == IF batch.reverse
                THEN cli_process_path(fs, target_path, source_file, git_tracked_files,
                                      batch.dry, batch.replace_existing)
                ELSE cli_process_path(fs, source_file, target_path, git_tracked_files,
                                      batch.dry, batch.replace_existing)
       IN  /\ fs' = r.fs
           /\ batch' = count_outcome(batch, source_file, r)
    /\ UNCHANGED <<git_tracked_files, pre, last, patterns, exclude_patterns,
                   include_files, resolved, git_run, query, config>>

\* the loop has run through the list: the three counts are reported
ApplySummary ==
    /\ batch.phase = "sync"
    /\ Len(batch.attempted) = Len(batch.files)
    /\ batch' = [batch EXCEPT !.phase = "done"]
    /\ UNCHANGED <<fs, git_tracked_files, pre, last, patterns, exclude_patterns,
                   include_files, resolved, git_run, query, config>>

NextApply ==
    \/ \E dry \in BOOLEAN, reverse \in BOOLEAN, replace_existing \in BOOLEAN,
          scan \in ScanOrders :
          ApplyStart(dry, reverse, replace_existing, scan)
    \/ ApplySyncFile
    \/ ApplySummary

SpecApply == InitApply /\ [][NextApply]_vars

\* the tracked-set provider is called where no tree has been looked at yet
InitGit ==
    /\ fs = Mount(source_dir, <<>>) @@ Mount(target_dir, <<>>)
    /\ git_tracked_files = NoTracked
    /\ pre = fs
    /\ last = NoCall
    /\ patterns = <<>>
    /\ exclude_patterns = <<>>
    /\ include_files = FALSE
    /\ resolved = NoResolve
    /\ git_run = NoGitRun
    /\ batch = NoBatch
    /\ query = NoQuery
    /\ config = NoConfig

\* the one call of get_git_tracked_files(source_dir) a run makes, the two git
\* invocations coming to rev_parse and ls_files
GetGitTrackedFiles(rev_parse, ls_files) ==
    LET r == get_git_tracked_files(rev_parse, ls_files)
        ran(command) == \E i \in 1..Len(r.commands) : r.commands[i] = command
    IN  /\ ~git_run.called
        /\ git_tracked_files' = r.value
        /\ git_run' = [called |-> TRUE, raised |-> r.raised, commands |-> r.commands,
                       rev_parse |-> rev_parse,
                       ls_files |-> IF ran("ls-files") THEN ls_files ELSE NotRun]
        /\ UNCHANGED <<fs, pre, last, patterns, exclude_patterns, include_files,
                       resolved, batch, query, config>>

\* the work-tree check fails and nothing else is run, or it succeeds and the
\* listing is run
NextGit ==
    \/ \E rev_parse \in RevParseOutcomes \ {CompletedProcess(0, "")} :
          GetGitTrackedFiles(rev_parse, NotRun)
    \/ \E ls_files \in LsFilesOutcomes :
          GetGitTrackedFiles(CompletedProcess(0, ""), ls_files)

SpecGit == InitGit /\ [][NextGit]_vars

InitConfig ==
    /\ fs = Mount(source_dir, <<>>) @@ Mount(target_dir, <<>>)
    /\ git_tracked_files = NoTracked
    /\ pre = fs
    /\ last = NoCall
    /\ patterns = <<>>
    /\ exclude_patterns = <<>>
    /\ include_files = FALSE
    /\ resolved = NoResolve
    /\ git_run = NoGitRun
    /\ batch = NoBatch
    /\ query = NoQuery
    /\ config = NoConfig

\* the record of a configuration command: what it was given and how it ended
Command(op, pattern, target_name, r) ==
    [op |-> op, pattern |-> pattern, target_name |-> target_name, exit |-> r.exit]

\* one run of `arboribus init`
RunInit(target, name) ==
    LET r == init(config, target, name)
    IN  /\ config' = r.config
        /\ last' = Command("init", "", name, r)
        /\ UNCHANGED <<fs, git_tracked_files, pre, patterns, exclude_patterns,
                       include_files, resolved, git_run, batch, query>>

\* one run of `arboribus add-rule`
RunAddRule(pattern, target_name, exclude_pattern) ==
    LET r == add_rule(config, pattern, target_name, exclude_pattern)
    IN  /\ config' = r.config
        /\ last' = Command("add_rule", pattern, target_name, r)
        /\ UNCHANGED <<fs, git_tracked_files, pre, patterns, exclude_patterns,
                       include_files, resolved, git_run, batch, query>>

\* one run of `arboribus remove-rule`
RunRemoveRule(pattern, target_name) ==
    LET r == remove_rule(config, pattern, target_name)
    IN  /\ config' = r.config
        /\ last' = Command("remove_rule", pattern, target_name, r)
        /\ UNCHANGED <<fs, git_tracked_files, pre, patterns, exclude_patterns,
                       include_files, resolved, git_run, batch, query>>

NextConfig ==
    \/ \E target \in TargetOptions, name \in TargetNames : RunInit(target, name)
    \/ \E pattern \in RulePatterns, target_name \in TargetNames,
          exclude_pattern \in RuleExcludes :
             RunAddRule(pattern, target_name, exclude_pattern)
    \/ \E pattern \in RulePatterns, target_name \in TargetNames :
          RunRemoveRule(pattern, target_name)

SpecConfig == InitConfig /\ [][NextConfig]_vars

\* the trees whose paths are compared by content: missing paths,
\* directories, files of every content and files that cannot be read
ContentTrees ==
    {t \in UNION {[D -> Nodes \cup {UnreadableFile}] : D \in SUBSET ContentRelPaths} :
        WellFormed(t)}

ContentPaths == {source_dir \o rel : rel \in ContentRelPaths}

InitContent ==
    /\ \E s \in ContentTrees : fs = Mount(source_dir, s) @@ Mount(target_dir, <<>>)
    /\ git_tracked_files = NoTracked
    /\ pre = fs
    /\ last = NoCall
    /\ patterns = <<>>
    /\ exclude_patterns = <<>>
    /\ include_files = FALSE
    /\ resolved = NoResolve
    /\ git_run = NoGitRun
    /\ batch = NoBatch
    /\ query = NoQuery
    /\ config = NoConfig

\* one call of is_same_file_content(source_path, target_path); the helpers
\* only read the filesystem, so one call per tree shows all they do
IsSameFileContent(source_path, target_path) ==
    /\ query.fn = "none"
    /\ query' = [fn |-> "is_same_file_content",
                 args |-> <<source_path, target_path>>,
                 value |-> is_same_file_content(fs, source_path, target_path)]
    /\ UNCHANGED <<fs, git_tracked_files, pre, last, patterns, exclude_patterns,
                   include_files, resolved, git_run, batch, config>>

NextContent ==
    \E source_path \in ContentPaths, target_path \in ContentPaths :
        IsSameFileContent(source_path, target_path)

SpecContent == InitContent /\ [][NextContent]_vars

NoRepeat(l) == \A i, j \in 1..Len(l) : i # j => l[i] # l[j]

\* the trees the collector and the statistics are asked about: "a" and "a/b"
\* are files or directories, the other entries are files
QueryTrees ==
    {t \in UNION {[D -> {DirNode, FileNode(1)}] : D \in SUBSET QueryRelPaths} :
        /\ WellFormed(t)
        /\ \A p \in DOMAIN t : p \notin {<<"a">>, <<"a", "b">>} => t[p].kind = "file"}

QueryPaths == {source_dir \o rel : rel \in QueryRelPaths}

InitQueries ==
    /\ \E s \in QueryTrees : fs = Mount(source_dir, s) @@ Mount(target_dir, <<>>)
    /\ git_tracked_files \in QueryTrackedSets
    /\ pre = fs
    /\ last = NoCall
    /\ patterns = <<>>
    /\ exclude_patterns = <<>>
    /\ include_files = FALSE
    /\ resolved = NoResolve
    /\ git_run = NoGitRun
    /\ batch = NoBatch
    /\ query = NoQuery
    /\ config = NoConfig

\* the ways a walk of the directory may go
WalkOutcomes(f, directory) ==
    {WalkCompletes} \cup
    {WalkRaises(n) : n \in 0..Cardinality(Descendants(f, directory) \ {directory})}

\* one call of collect_files_recursive(directory, source_dir, git_tracked_files)
CollectFilesRecursive(directory, scan, walk) ==
    /\ query.fn = "none"
    /\ query' = [fn |-> "collect_files_recursive",
                 args |-> <<directory, scan, walk>>,
                 value |-> collect_files_recursive(fs, directory, git_tracked_files,
                                                   scan, walk)]
    /\ UNCHANGED <<fs, git_tracked_files, pre, last, patterns, exclude_patterns,
                   include_files, resolved, git_run, batch, config>>

\* the lists of distinct paths the statistics are asked about
ListedPaths ==
    {l \in UNION {[1..n -> QueryPaths] : n \in 0..MaxListed} : NoRepeat(l)}

\* one call of get_file_statistics(paths, source_dir, git_tracked_files)
GetFileStatistics(paths, scan) ==
    /\ query.fn = "none"
    /\ query' = [fn |-> "get_file_statistics",
                 args |-> <<paths, scan>>,
                 value |-> get_file_statistics(fs, paths, git_tracked_files, scan)]
    /\ UNCHANGED <<fs, git_tracked_files, pre, last, patterns, exclude_patterns,
                   include_files, resolved, git_run, batch, config>>

NextQueries ==
    \/ \E paths \in ListedPaths, scan \in ScanOrders : GetFileStatistics(paths, scan)
    \/ \E directory \in {source_dir} \cup QueryPaths, scan \in ScanOrders :
          \E walk \in WalkOutcomes(fs, directory) :
             CollectFilesRecursive(directory, scan, walk)

SpecQueries == InitQueries /\ [][NextQueries]_vars

(***************************************************************************)
(* What the last call was about.                                           *)
(***************************************************************************)
Called == last.op = "process_path"

LastSource == source_dir \o last.rel

LastTarget == target_dir \o last.rel

\* the tracked-set filter lets the file of the last call through
Admitted == git_tracked_files.is_none \/ PathStr(last.rel) \in git_tracked_files.files

\* everything under the target directory
TargetTree(f) == [p \in {q \in DOMAIN f : IsUnder(q, target_dir)} |-> f[p]]

\* the parent directory of p exists or can be created
ParentUsable(f, p) == \A q \in Prefixes(Parent(p)) : ~is_file(f, q)

\* source and target are files with the same bytes
Identical(f, source_path, target_path) ==
    /\ is_file(f, source_path)
    /\ is_file(f, target_path)
    /\ f[source_path].data = f[target_path].data

Performed(op) == \E i \in 1..Len(last.ops) : last.ops[i] = op

(***************************************************************************)
(* C1. Tracked-set exclusivity: a source file whose root-relative path is  *)
(* not in the supplied tracked set is not processed, the message says      *)
(* "filtered out", and the target is neither created nor modified,         *)
(* whatever the target state and the dry and replace_existing flags.       *)
(***************************************************************************)
C1_TrackedSetExclusivity ==
    (Called /\ is_file(pre, LastSource) /\ ~Admitted)
        => /\ ~last.ok
           /\ contains(last.msg, "filtered out")
           /\ TargetTree(fs) = TargetTree(pre)

C1_Witness ==
    /\ Called /\ is_file(pre, LastSource) /\ ~Admitted
    /\ is_file(pre, LastTarget) /\ ~Identical(pre, LastSource, LastTarget)
    /\ last.replace_existing /\ ~last.dry
    /\ contains(last.msg, "filtered out")

(***************************************************************************)
(* C2. Dry-run purity: process_path with dry=True leaves the whole         *)
(* filesystem, source tree and target tree, exactly as it was.             *)
(***************************************************************************)
C2_DryRunPurity == (Called /\ last.dry) => fs = pre

C2_Witness ==
    /\ Called /\ last.dry /\ last.ok /\ last.replace_existing
    /\ is_dir(pre, LastSource)
    /\ exists(pre, LastTarget)
    /\ fs = pre

(***************************************************************************)
(* C3. Dry-run fidelity: from the same starting state, process_path with   *)
(* dry=True returns the was_processed value that the run with dry=False    *)
(* returns.  Stated for the starting states in which no path has the wrong *)
(* kind (the target's ancestors are directories, an existing target is a   *)
(* file for a file and a directory for a directory).                       *)
(***************************************************************************)
C3_DryRunFidelity ==
    (/\ Called /\ ~last.dry
     /\ exists(pre, LastSource)
     /\ ParentUsable(pre, LastTarget)
     /\ exists(pre, LastTarget) => pre[LastTarget].kind = pre[LastSource].kind)
        => last.ok = process_path(pre, LastSource, LastTarget, git_tracked_files,
                                  TRUE, last.replace_existing).ok

(***************************************************************************)
(* C4. File idempotence without replace: a first run (dry=False,           *)
(* replace_existing=False) on a file whose target is absent returns        *)
(* was_processed=True "copied"; a second run on the unchanged source       *)
(* returns was_processed=False "same - skipped" and leaves the target as   *)
(* it is.  (No I/O failure: the target's parent can be created.)           *)
(***************************************************************************)
C4_FirstRun ==
    /\ Called /\ is_file(pre, LastSource) /\ Admitted
    /\ ~last.dry /\ ~last.replace_existing
    /\ ~exists(pre, LastTarget)
    /\ ParentUsable(pre, LastTarget)

C5_Case ==
    /\ Called /\ is_file(pre, LastSource) /\ Admitted
    /\ is_file(pre, LastTarget)
    /\ ~Identical(pre, LastSource, LastTarget)
    /\ last.replace_existing /\ ~last.dry

C5_ReplaceOverwrite ==
    C5_Case
        => /\ is_file(fs, LastTarget)
           /\ fs[LastTarget].data = pre[LastSource].data
           /\ last.ok
           /\ contains(last.msg, "replaced")

C5_Witness == C5_Case /\ Identical(fs, LastSource, LastTarget)

(***************************************************************************)
(* C6. Identical content wins over replace: a target file whose bytes      *)
(* equal the source's is never rewritten by a run with dry=False: no copy  *)
(* is performed and the outcome is a skip, also with replace_existing.     *)
(***************************************************************************)
C6_IdenticalNeverRewritten ==
    (Called /\ ~last.dry /\ Identical(pre, LastSource, LastTarget))
        => /\ ~Performed("copy2")
           /\ ~last.ok

(***************************************************************************)
(* C7. Existing target without replace: when the target exists and         *)
(* replace_existing=False, the file is not processed and the filesystem is *)
(* unchanged, for dry=True and dry=False; the message contains             *)
(* "same - skipped" exactly when the contents are identical, and           *)
(* "exists - skipped" otherwise.                                           *)
(***************************************************************************)
C7_Case ==
    /\ Called /\ is_file(pre, LastSource) /\ Admitted
    /\ exists(pre, LastTarget)
    /\ ~last.replace_existing

C7_ExistingTargetNoReplace ==
    C7_Case
        => /\ ~last.ok
           /\ fs = pre
           /\ contains(last.msg, "same - skipped")
                <=> Identical(pre, LastSource, LastTarget)
           /\ ~Identical(pre, LastSource, LastTarget)
                => contains(last.msg, "exists - skipped")

C7_Witness ==
    /\ C7_Case
    /\ ~last.dry
    /\ is_file(pre, LastTarget)
    /\ ~Identical(pre, LastSource, LastTarget)
    /\ contains(last.msg, "exists - skipped")

(***************************************************************************)
(* What the last resolve_patterns call returned, and what it would have    *)
(* returned without the tracked set or without the exclude list.           *)
(***************************************************************************)
ResolvedSet == ToSet(resolved.result)

RelStr(p) == PathStr(relative_to(p, source_dir))

ResolvedUnfiltered ==
    ToSet(resolve_patterns(fs, patterns, exclude_patterns, NoTracked,
                           include_files, resolved.scan))

ResolvedUnexcluded ==
    ToSet(resolve_patterns(fs, patterns, <<>>, git_tracked_files,
                           include_files, resolved.scan))

\* the paths some pattern names literally
DirectPaths == {source_dir \o parts(patterns[i]) : i \in 1..Len(patterns)}

(***************************************************************************)
(* C8. Directory inclusion rule: with a tracked set supplied, a directory  *)
(* matched by an include pattern and not excluded is in resolve_patterns'  *)
(* result iff the tracked set has an entry equal to its relative path or   *)
(* starting with that path followed by "/"; an entry that only shares the  *)
(* name as a prefix does not admit it.                                     *)
(***************************************************************************)
TrackedAdmits(d) ==
    \E e \in git_tracked_files.files :
        \/ e = RelStr(d)
        \/ /\ Len(e) > Len(RelStr(d))
           /\ SubSeq(e, 1, Len(RelStr(d))) = RelStr(d)
           /\ SubSeq(e, Len(RelStr(d)) + 1, Len(RelStr(d)) + 1) = "/"

C8_DirectoryInclusionRule ==
    (resolved.called /\ ~git_tracked_files.is_none)
        => \A d \in ResolvedUnfiltered :
              is_dir(fs, d) => (d \in ResolvedSet <=> TrackedAdmits(d))

C8_Witness ==
    /\ resolved.called /\ ~git_tracked_files.is_none
    /\ \E d \in ResolvedUnfiltered \ ResolvedSet :
          /\ is_dir(fs, d)
          /\ \E e \in git_tracked_files.files : startswith(e, RelStr(d))
    /\ \E d \in ResolvedSet :
          /\ is_dir(fs, d)
          /\ RelStr(d) \notin git_tracked_files.files

(***************************************************************************)
(* C9. Resolver output shape: for any pattern list, overlapping or         *)
(* repeated patterns included, resolve_patterns returns a list without     *)
(* duplicates in ascending path order, and a second call with the same     *)
(* inputs on the unchanged filesystem returns the same list, in whatever   *)
(* order the directory listings come back.                                 *)
(***************************************************************************)
NoDuplicates(seq) == \A i, j \in 1..Len(seq) : i # j => seq[i] # seq[j]

Ascending(seq) == \A i, j \in 1..Len(seq) : i < j => PathLess(seq[i], seq[j])

C9_ResolverOutputShape ==
    resolved.called
        => /\ NoDuplicates(resolved.result)
           /\ Ascending(resolved.result)
           /\ \A scan \in ScanOrders :
                 resolve_patterns(fs, patterns, exclude_patterns, git_tracked_files,
                                  include_files, scan) = resolved.result

C9_Witness ==
    /\ resolved.called
    /\ resolved.scan = "descending"
    /\ Len(resolved.result) >= 2
    /\ Len(matched_paths(fs, patterns, exclude_patterns, git_tracked_files,
                         include_files, resolved.scan)) > Len(resolved.result)
    /\ \E p \in DirectPaths : p \in ResolvedSet

(***************************************************************************)
(* C10. Exclude filter: no returned path has a root-relative path string   *)
(* that starts with a string of exclude_patterns, whether it was found by  *)
(* direct match or by glob; a candidate whose relative path starts with no *)
(* exclude string is not dropped by the filter.                            *)
(***************************************************************************)
StartsWithExclude(p) ==
    \E i \in 1..Len(exclude_patterns) :
        /\ Len(exclude_patterns[i]) <= Len(RelStr(p))
        /\ SubSeq(RelStr(p), 1, Len(exclude_patterns[i])) = exclude_patterns[i]

C10_ExcludeFilter ==
    resolved.called
        => /\ \A p \in ResolvedSet : ~StartsWithExclude(p)
           /\ \A p \in ResolvedUnexcluded : ~StartsWithExclude(p) => p \in ResolvedSet

C10_Witness ==
    /\ resolved.called
    /\ \E p \in (ResolvedUnexcluded \ ResolvedSet) \cap DirectPaths : TRUE
    /\ \E p \in (ResolvedUnexcluded \ ResolvedSet) \ DirectPaths : TRUE
    /\ ResolvedSet # {}

(***************************************************************************)
(* C11. None versus empty tracked set: with the tracked set None,          *)
(* resolve_patterns returns every match unfiltered (what it returns when   *)
(* every existing path is tracked) and process_path never answers          *)
(* "filtered out"; with an empty tracked set resolve_patterns returns the  *)
(* empty list for every pattern list, and process_path returns             *)
(* was_processed=False "filtered out" for every file and every directory,  *)
(* changing nothing.                                                       *)
(***************************************************************************)
SourcePaths == Descendants(fs, source_dir)

EveryPathTracked == Tracked({RelStr(p) : p \in SourcePaths})

ProcessPathOutcomes(p) ==
    {process_path(fs, p, target_dir \o relative_to(p, source_dir),
                  git_tracked_files, dry, replace_existing) :
        dry \in BOOLEAN, replace_existing \in BOOLEAN}

C11_NoneVersusEmpty ==
    resolved.called
        => /\ git_tracked_files.is_none
                => /\ resolved.result =
                        resolve_patterns(fs, patterns, exclude_patterns, EveryPathTracked,
                                         include_files, resolved.scan)
                   /\ \A p \in SourcePaths : \A r \in ProcessPathOutcomes(p) :
                         ~contains(r.msg, "filtered out")
           /\ git_tracked_files = Tracked({})
                => /\ resolved.result = <<>>
                   /\ \A p \in SourcePaths : \A r \in ProcessPathOutcomes(p) :
                         /\ ~r.ok
                         /\ contains(r.msg, "filtered out")
                         /\ r.fs = fs

C11_Witness ==
    /\ resolved.called
    /\ git_tracked_files = Tracked({})
    /\ include_files
    /\ \E p \in ResolvedUnfiltered : is_file(fs, p)
    /\ \E p \in ResolvedUnfiltered : is_dir(fs, p)
    /\ resolved.result = <<>>

(***************************************************************************)
(* C12. Resolver candidate kinds: with include_files=False every path      *)
(* resolve_patterns returns is a directory, however the pattern matched;   *)
(* with include_files=True and a tracked set supplied, a file is returned  *)
(* only if its root-relative path string is a member of the tracked set.   *)
(***************************************************************************)
C12_ResolverCandidateKinds ==
    resolved.called
        => /\ ~include_files => \A p \in ResolvedSet : is_dir(fs, p)
           /\ (include_files /\ ~git_tracked_files.is_none)
                => \A p \in ResolvedSet :
                      is_file(fs, p) => RelStr(p) \in git_tracked_files.files

C12_Witness ==
    /\ resolved.called
    /\ include_files
    /\ ~git_tracked_files.is_none
    /\ \E p \in ResolvedSet : is_file(fs, p)
    /\ \E p \in ResolvedSet : is_dir(fs, p)

(***************************************************************************)
(* C13. Tracked-set provider outcome: get_git_tracked_files never raises;  *)
(* it returns None whenever the work-tree check exits non-zero, the        *)
(* list-files step exits non-zero, or either invocation raises; otherwise  *)
(* it returns exactly the set of the whitespace-stripped non-empty output  *)
(* lines, the empty set (not None) when no line is non-blank.              *)
(***************************************************************************)
CharAt(s, k) == SubSeq(s, k, k)

\* out[i..j] is a line of out without the blanks around it, and not empty
StrippedLine(out, i, j) ==
    /\ i <= j
    /\ CharAt(out, i) \notin Whitespace
    /\ CharAt(out, j) \notin Whitespace
    /\ \A k \in i..j : CharAt(out, k) # "\n"
    /\ \E a \in 1..i, b \in j..Len(out) :
          /\ a = 1 \/ CharAt(out, a - 1) = "\n"
          /\ b = Len(out) \/ CharAt(out, b + 1) = "\n"
          /\ \A k \in a..(i - 1) : CharAt(out, k) \in Whitespace \ {"\n"}
          /\ \A k \in (j + 1)..b : CharAt(out, k) \in Whitespace \ {"\n"}

NonBlankLines(out) ==
    {SubSeq(out, ij[1], ij[2]) :
        ij \in {p \in (1..Len(out)) \X (1..Len(out)) : StrippedLine(out, p[1], p[2])}}

GitFailed ==
    \/ git_run.rev_parse.raises
    \/ git_run.rev_parse.returncode # 0
    \/ git_run.ls_files.raises
    \/ git_run.ls_files.returncode # 0

C13_TrackedSetProvider ==
    git_run.called
        => /\ ~git_run.raised
           /\ GitFailed => git_tracked_files = NoTracked
           /\ ~GitFailed
                => /\ ~git_tracked_files.is_none
                   /\ git_tracked_files.files = NonBlankLines(git_run.ls_files.stdout)

C13_Witness ==
    /\ git_run.called
    /\ ~GitFailed
    /\ git_run.ls_files.stdout = " a\n\n"
    /\ git_tracked_files = Tracked({"a"})

(***************************************************************************)
(* C14. Per-path failures become outcomes: in process_path with dry=False, *)
(* a failure creating the target's parent directory, copying the file,     *)
(* removing an existing target directory or copying the directory tree     *)
(* ends the call with was_processed=False and a message naming the failure *)
(* ("mkdir error", "error", "rmtree error"), and no later step of that     *)
(* path is attempted after the failing one.                                *)
(***************************************************************************)
\* the last call got as far as creating the parent and copying the file
FileCopyStage ==
    /\ Called /\ ~last.dry
    /\ is_file(pre, LastSource) /\ Admitted
    /\ exists(pre, LastTarget) => last.replace_existing

\* the last call got as far as removing the target and copying the tree
DirCopyStage ==
    /\ Called /\ ~last.dry
    /\ is_dir(pre, LastSource)
    /\ git_tracked_files.is_none \/ has_tracked_files(last.rel, git_tracked_files)

\* an ancestor of the target is a file
MkdirFails == FileCopyStage /\ ~ParentUsable(pre, LastTarget)

\* the source file cannot be opened, or the target is a directory holding a
\* directory of the source file's name
CopyFails ==
    /\ FileCopyStage /\ ParentUsable(pre, LastTarget)
    /\ \/ ~readable(pre, LastSource)
       \/ /\ is_dir(pre, LastTarget)
          /\ is_dir(pre, Append(LastTarget, Name(LastSource)))

\* the target to remove is not a directory
RmtreeFails ==
    /\ DirCopyStage
    /\ last.replace_existing
    /\ is_file(pre, LastTarget)

\* the entry q of the source directory is not left out by the ignore callback,
\* and neither is a directory on the way to it
Carried(q) ==
    \A k \in (Len(LastSource) + 1)..Len(q) :
        \/ git_tracked_files.is_none
        \/ PathStr(relative_to(SubSeq(q, 1, k), source_dir)) \in git_tracked_files.files

\* the target directory cannot be created, or a file to copy cannot be opened
CopytreeFails ==
    /\ DirCopyStage /\ ~RmtreeFails
    /\ \/ exists(pre, LastTarget) /\ ~last.replace_existing
       \/ ~ParentUsable(pre, LastTarget)
       \/ \E q \in Descendants(pre, LastSource) :
             is_file(pre, q) /\ ~readable(pre, q) /\ Carried(q)

C14_FailuresBecomeOutcomes ==
    /\ MkdirFails
         => /\ ~last.ok
            /\ contains(last.msg, "mkdir error")
            /\ last.ops = <<"mkdir">>
    /\ CopyFails
         => /\ ~last.ok
            /\ last.msg = "error"
            /\ last.ops = <<"mkdir", "copy2">>
    /\ RmtreeFails
         => /\ ~last.ok
            /\ contains(last.msg, "rmtree error")
            /\ last.ops = <<"rmtree">>
    /\ CopytreeFails
         => /\ ~last.ok
            /\ last.msg = "error"
            /\ last.ops[Len(last.ops)] = "copytree"
    /\ (Called /\ ~last.dry /\ ~last.ok /\ last.ops # <<>>)
         => MkdirFails \/ CopyFails \/ RmtreeFails \/ CopytreeFails

C14_Witness ==
    /\ CopyFails
    /\ last.msg = "error"
    /\ fs = pre

(***************************************************************************)
(* C15. Directory copy excludes untracked files: after a successful        *)
(* process_directory_sync (dry=False) with a tracked set supplied into a   *)
(* target that did not exist before, the target tree holds no file whose   *)
(* root-relative source path is absent from the tracked set.               *)
(***************************************************************************)
\* the last call synced a directory, with success
DirectorySynced ==
    /\ Called /\ ~last.dry /\ last.ok
    /\ is_dir(pre, LastSource)

\* the files beneath the directory p
FilesUnder(f, p) == {q \in Descendants(f, p) : is_file(f, q)}

C15_DirectoryCopyExcludesUntracked ==
    (DirectorySynced /\ ~git_tracked_files.is_none /\ ~exists(pre, LastTarget))
        => \A q \in FilesUnder(fs, LastTarget) :
              PathStr(relative_to(q, target_dir)) \in git_tracked_files.files

C15_Witness ==
    /\ DirectorySynced /\ ~git_tracked_files.is_none /\ ~exists(pre, LastTarget)
    /\ FilesUnder(fs, LastTarget) # {}
    /\ \E q \in FilesUnder(fs, LastSource) :
          /\ Len(q) = Len(LastSource) + 1
          /\ ~exists(fs, target_dir \o relative_to(q, source_dir))

(***************************************************************************)
(* C16. Directory copy carries every tracked file: after a successful      *)
(* process_directory_sync (dry=False) with a tracked set supplied, every   *)
(* tracked file beneath the source directory, at any depth, is in the      *)
(* target tree at the corresponding relative path with the source's        *)
(* content: the files copied are those collect_files_recursive reports.    *)
(***************************************************************************)
C16_DirectoryCopyCarriesTracked ==
    (DirectorySynced /\ ~git_tracked_files.is_none)
        => \A q \in ToSet(collect_files_recursive(pre, LastSource, git_tracked_files,
                                                  "ascending", WalkCompletes)) :
              Identical(fs, q, target_dir \o relative_to(q, source_dir))

(***************************************************************************)
(* C17. Directory replace: when the target directory exists and            *)
(* replace_existing=True (dry=False), process_directory_sync removes the   *)
(* old target before it copies: the outcome is was_processed=True "synced  *)
(* directory", no file that existed only in the old target is left, and    *)
(* (no tracked set filtering the copy) every file of the source directory  *)
(* is in the target with the source's content.                             *)
(***************************************************************************)
C17_Case ==
    /\ Called /\ ~last.dry /\ last.replace_existing
    /\ is_dir(pre, LastSource)
    /\ is_dir(pre, LastTarget)
    /\ git_tracked_files.is_none \/ has_tracked_files(last.rel, git_tracked_files)

Count(seq, x) == Cardinality({i \in 1..Len(seq) : seq[i] = x})

C18_BatchLoopAccounting ==
    batch.phase \in {"sync", "done"}
        => /\ Len(batch.attempted) <= Len(batch.files)
           /\ batch.attempted = SubSeq(batch.files, 1, Len(batch.attempted))
           /\ Len(batch.outcomes) = Len(batch.attempted)
           /\ batch.processed_count = Count(batch.outcomes, "processed")
           /\ batch.skipped_count = Count(batch.outcomes, "skipped")
           /\ batch.error_count = Count(batch.outcomes, "error")
           /\ batch.phase = "done"
                => /\ batch.attempted = batch.files
                   /\ batch.processed_count + batch.skipped_count + batch.error_count
                        = Len(batch.files)

C18_Witness ==
    /\ batch.phase = "done"
    /\ ~batch.reverse
    /\ Len(batch.files) >= 2
    /\ batch.outcomes[1] = "error"
    /\ batch.outcomes[2] = "processed"
    /\ batch.skipped_count = 0

(***************************************************************************)
(* C19. End-to-end apply: after a non-dry, non-reverse apply into a target *)
(* that starts empty, with no tracked-set filtering, every file beneath a  *)
(* source directory that a pattern of the target matches is in the target  *)
(* at the same root-relative path, and the target holds no file for a      *)
(* source path that no pattern matched (pattern "a*" syncs the directories *)
(* "a" and "ab" but not "c").                                              *)
(***************************************************************************)
\* the pattern, component by component, matches the root-relative path
PatternMatches(pattern, rel) ==
    /\ Len(parts(pattern)) = Len(rel)
    /\ \A i \in 1..Len(rel) : fnmatch(rel[i], parts(pattern)[i])

\* some pattern of the target matches the source path p
Matched(p) ==
    \E i \in 1..Len(patterns) : PatternMatches(patterns[i], relative_to(p, source_dir))

\* the path's counterpart under the other root
InTarget(p) == target_dir \o relative_to(p, source_dir)

InSource(q) == source_dir \o relative_to(q, target_dir)

C19_Case ==
    /\ batch.phase = "done"
    /\ ~batch.dry /\ ~batch.reverse
    /\ git_tracked_files.is_none
    /\ Descendants(pre, target_dir) = {target_dir}

C19_EndToEndApply ==
    C19_Case
        => /\ \A d \in SourcePaths :
                 (is_dir(pre, d) /\ Matched(d))
                    => \A q \in FilesUnder(pre, d) : Identical(fs, q, InTarget(q))
           /\ \A q \in FilesUnder(fs, target_dir) :
                 \E p \in SourcePaths : Matched(p) /\ IsUnder(InSource(q), p)

C19_Witness ==
    /\ C19_Case
    /\ patterns = <<"a*">>
    /\ is_file(fs, <<"T", "a", "b">>)
    /\ is_file(fs, <<"T", "ab", "b">>)
    /\ is_file(fs, <<"S", "c", "b">>)
    /\ ~exists(fs, <<"T", "c">>)
    /\ batch.processed_count = 2

(***************************************************************************)
(* C20. Reverse apply: with --reverse, for each file of the flat list      *)
(* whose counterpart exists under the target directory (which lies outside *)
(* the source root), the reconcile of the pair completes without error,    *)
(* and copies the target's file onto the source path subject to the skip   *)
(* and replace rules: with replace_existing and no dry run the source file *)
(* ends with the target's content.                                         *)
(***************************************************************************)
C20_ReverseApply ==
    (batch.phase \in {"sync", "done"} /\ batch.reverse)
        => /\ \A i \in 1..Len(batch.outcomes) :
                 is_file(pre, InTarget(batch.files[i])) => batch.outcomes[i] # "error"
           /\ (batch.phase = "done" /\ ~batch.dry /\ batch.replace_existing)
                => \A i \in 1..Len(batch.files) :
                      is_file(pre, InTarget(batch.files[i]))
                         => /\ Identical(fs, batch.files[i], InTarget(batch.files[i]))
                            /\ fs[batch.files[i]].data = pre[InTarget(batch.files[i])].data

(***************************************************************************)
(* C21. is_same_file_content(a, b) is False when either path does not      *)
(* exist; otherwise it is True exactly when both checksums were computed   *)
(* and are equal, so a checksum that failed (None) on either side, or on   *)
(* both sides at once, gives False.                                        *)
(***************************************************************************)
\* the last helper called was is_same_file_content
SameContentAsked == query.fn = "is_same_file_content"

C21_SameContentContract ==
    SameContentAsked
        => LET a == query.args[1]
               b == query.args[2]
           IN  /\ (~exists(fs, a) \/ ~exists(fs, b)) => query.value = FALSE
               /\ (exists(fs, a) /\ exists(fs, b))
                    => (query.value = TRUE
                          <=> /\ readable(fs, a) /\ readable(fs, b)
                              /\ fs[a].data = fs[b].data)
               /\ (get_file_checksum(fs, a) = NoneValue
                     \/ get_file_checksum(fs, b) = NoneValue) => query.value = FALSE

\* two existing paths neither of which has a checksum: a directory and an
\* unreadable file
C21_Witness ==
    /\ SameContentAsked
    /\ is_dir(fs, query.args[1])
    /\ is_file(fs, query.args[2]) /\ ~readable(fs, query.args[2])
    /\ query.value = FALSE

(***************************************************************************)
(* C22. collect_files_recursive returns exactly the regular files, at every *)
(* depth beneath the directory, whose root-relative path is in the tracked *)
(* set (all of them when there is none) and never a directory; when the    *)
(* walk raises PermissionError/OSError it returns the files collected up   *)
(* to then, possibly none.                                                 *)
(***************************************************************************)
\* the last helper called was collect_files_recursive
CollectAsked == query.fn = "collect_files_recursive"

\* the files beneath the directory that the tracked set lets through
TrackedFilesBeneath(directory) ==
    {q \in DOMAIN fs :
        /\ IsUnder(q, directory) /\ q # directory
        /\ fs[q].kind = "file"
        /\ git_tracked_files.is_none \/ RelStr(q) \in git_tracked_files.files}

C22_CollectorContract ==
    CollectAsked
        => LET directory == query.args[1]
               walk == query.args[3]
               items == rglob(fs, directory, query.args[2])
               files == query.value
           IN  /\ NoDuplicates(files)
               /\ \A i \in 1..Len(files) : ~is_dir(fs, files[i])
               /\ walk = WalkCompletes
                    => ToSet(files) = TrackedFilesBeneath(directory)
               /\ walk # WalkCompletes
                    => ToSet(files) =
                         TrackedFilesBeneath(directory)
                            \cap {items[i] : i \in 1..walk[1]}

\* the walk raised after a file two levels down was collected and before
\* another file was reached
C22_Witness ==
    /\ CollectAsked
    /\ query.args[3] # WalkCompletes
    /\ \E i \in 1..Len(query.value) : Len(query.value[i]) = Len(query.args[1]) + 2
    /\ ToSet(query.value) # TrackedFilesBeneath(query.args[1])
    /\ ~git_tracked_files.is_none

(***************************************************************************)
(* C23. On a successful file copy (dry=False) the message of               *)
(* process_file_sync contains "copied" when the target did not exist       *)
(* before the call and "replaced" when an existing target was overwritten, *)
(* whatever replace_existing is.                                           *)
(***************************************************************************)
\* the last call copied a file, with success
FileCopied ==
    /\ Called /\ ~last.dry /\ last.ok
    /\ is_file(pre, LastSource)
    /\ Performed("copy2")

C23_CopiedOrReplaced ==
    FileCopied
        => /\ ~exists(pre, LastTarget)
                => contains(last.msg, "copied") /\ ~contains(last.msg, "replaced")
           /\ is_file(pre, LastTarget)
                => contains(last.msg, "replaced")

(***************************************************************************)
(* C24. Directory idempotence without replace: a first run (dry=False,     *)
(* replace_existing=False) on a directory whose target is absent returns   *)
(* was_processed=True "synced directory"; a second run on the unchanged    *)
(* source changes nothing in the target tree and its outcome is not an     *)
(* error.                                                                  *)
(***************************************************************************)
C24_FirstRun ==
    /\ Called /\ is_dir(pre, LastSource)
    /\ git_tracked_files.is_none \/ has_tracked_files(last.rel, git_tracked_files)
    /\ ~last.dry /\ ~last.replace_existing
    /\ ~exists(pre, LastTarget)
    /\ ParentUsable(pre, LastTarget)

C24_DirectoryIdempotence ==
    C24_FirstRun
        => /\ last.ok
           /\ contains(last.msg, "synced directory")
           /\ LET second == process_directory_sync(fs, LastSource, LastTarget,
                                                   git_tracked_files, FALSE, FALSE)
              IN  /\ second.fs = fs
                  /\ ~contains(second.msg, "error")

(***************************************************************************)
(* C25. Order independence: two distinct source paths (a directory and a   *)
(* path inside it included) reconciled one after the other with the same   *)
(* flags give the same final target filesystem and the same                *)
(* (was_processed, message kind) for each path whichever of them goes      *)
(* first.                                                                   *)
(***************************************************************************)
\* the last call was the first of two; other is the path of the second
C25_Pair(other) ==
    /\ Called
    /\ other # last.rel
    /\ exists(pre, LastSource)
    /\ exists(pre, source_dir \o other)

C25_OrderIndependence ==
    \A other \in RelPaths :
        C25_Pair(other)
          => LET then_other == process_path(fs, source_dir \o other, target_dir \o other,
                                            git_tracked_files, last.dry,
                                            last.replace_existing)
                 other_first == process_path(pre, source_dir \o other, target_dir \o other,
                                             git_tracked_files, last.dry,
                                             last.replace_existing)
                 then_last == process_path(other_first.fs, LastSource, LastTarget,
                                           git_tracked_files, last.dry,
                                           last.replace_existing)
             IN  /\ then_other.fs = then_last.fs
                 /\ then_other.ok = other_first.ok
                 /\ then_other.msg = other_first.msg
                 /\ last.ok = then_last.ok
                 /\ last.msg = then_last.msg

(***************************************************************************)
(* C26. In the result of get_file_statistics "[TOTAL FILES]" is the sum of *)
(* the per-extension counts and "[TOTAL DIRS]" the number of directory     *)
(* entries of the input list; a file is counted only if it is tracked (or  *)
(* there is no tracked set), and each distinct file is counted at most     *)
(* once, also when the list holds a directory and a file or subdirectory   *)
(* inside it.                                                              *)
(***************************************************************************)
\* the last helper called was get_file_statistics
StatisticsAsked == query.fn = "get_file_statistics"

Totals == {"[TOTAL FILES]", "[TOTAL DIRS]"}

RECURSIVE SumOver(_, _)
SumOver(stats, keys) ==
    IF keys = {} THEN 0
    ELSE LET k == CHOOSE x \in keys : TRUE
         IN  stats[k] + SumOver(stats, keys \ {k})

\* the distinct tracked files the listed paths name or hold
ListedFiles(listed) ==
    {q \in DOMAIN fs :
        /\ fs[q].kind = "file"
        /\ git_tracked_files.is_none \/ RelStr(q) \in git_tracked_files.files
        /\ \E i \in 1..Len(listed) : IsUnder(q, listed[i])}

C26_StatisticsTotals ==
    StatisticsAsked
        => LET stats == query.value
               listed == query.args[1]
           IN  /\ stats["[TOTAL FILES]"] = SumOver(stats, DOMAIN stats \ Totals)
               /\ stats["[TOTAL DIRS]"] =
                     Cardinality({i \in 1..Len(listed) : is_dir(fs, listed[i])})
               /\ \A ext \in DOMAIN stats \ Totals :
                     stats[ext] <= Cardinality({q \in ListedFiles(listed) :
                                                  extension(q) = ext})

(***************************************************************************)
(* C27. Whenever process_file_sync or process_directory_sync (dry=False)   *)
(* returns an error outcome (was_processed=False with an "error" message)  *)
(* the content of the target path is what it was before the call; a        *)
(* directory sync with replace_existing=True whose tree copy fails does    *)
(* not leave the target that existed before removed.                       *)
(***************************************************************************)
\* what the path holds: the path itself and everything beneath it
ContentAt(f, p) == [q \in Descendants(f, p) |-> f[q]]

\* the last call ended with an error outcome
ErrorOutcome ==
    /\ Called /\ ~last.dry
    /\ ~last.ok /\ contains(last.msg, "error")

C27_ErrorLeavesTarget ==
    ErrorOutcome => ContentAt(fs, LastTarget) = ContentAt(pre, LastTarget)

(***************************************************************************)
(* C28. The source is read-only: process_path never creates, modifies or   *)
(* deletes anything under the source root, the target being neither the    *)
(* source path nor inside it.                                              *)
(***************************************************************************)
\* the target of the last call lies outside the source path
TargetOutsideSource == ~IsUnder(LastTarget, LastSource)

C29_Case ==
    /\ Called /\ is_file(pre, LastSource)
    /\ ~exists(pre, LastTarget) \/ is_file(pre, LastTarget)
    /\ ParentUsable(pre, LastTarget)

C29_CliAgreesWithCore ==
    C29_Case
        => LET cli == cli_process_path(pre, LastSource, LastTarget, git_tracked_files,
                                       last.dry, last.replace_existing)
           IN  /\ ~cli.raised
               /\ cli.ok = last.ok
               /\ ContentAt(cli.fs, target_dir) = ContentAt(fs, target_dir)

(***************************************************************************)
(* C30. After any sequence of init, add-rule and remove-rule every         *)
(* target's patterns and exclude-patterns lists are free of duplicates; a  *)
(* pattern that was added and not removed since is still in its target's   *)
(* patterns list, also after a later init naming the same target; and      *)
(* remove-rule changes neither the exclude-patterns nor any other target.  *)
(***************************************************************************)
\* the pattern is in the target's patterns list of configuration c
HasPattern(c, target_name, pattern) ==
    /\ target_name \in DOMAIN c.targets
    /\ pattern \in ToSet(c.targets[target_name].patterns)

ListsDuplicateFree ==
    \A t \in DOMAIN config.targets :
        /\ NoDuplicates(config.targets[t].patterns)
        /\ NoDuplicates(config.targets[t].exclude_patterns)

\* a pattern leaves a list only by a remove-rule naming it and its target
PatternsKept ==
    \A t \in TargetNames, p \in RulePatterns :
        (HasPattern(config, t, p) /\ ~HasPattern(config', t, p))
            => /\ last'.op = "remove_rule"
               /\ last'.pattern = p
               /\ last'.target_name = t

\* remove-rule leaves the exclude-patterns and the other targets alone
RemoveRuleFrame ==
    last'.op = "remove_rule"
        => /\ DOMAIN config'.targets = DOMAIN config.targets
           /\ \A t \in DOMAIN config.targets :
                 /\ config'.targets[t].exclude_patterns
                       = config.targets[t].exclude_patterns
                 /\ t # last'.target_name => config'.targets[t] = config.targets[t]

C30_RuleListInvariants ==
    /\ []ListsDuplicateFree
    /\ [][PatternsKept /\ RemoveRuleFrame]_vars

TypeOK ==
    /\ \A p \in DOMAIN fs : fs[p] \in Nodes \cup {UnreadableFile}
    /\ \A p \in DOMAIN fs : Len(p) > 1 => is_dir(fs, Parent(p))
====
